---- MODULE Spec2Model ----
(***************************************************************************)
(* The client-side upload queue of useUploadQueue (hooks/useUploadQueue.ts) *)
(* with the IndexedDB spillover store (lib/indexed-db.ts).                  *)
(*                                                                         *)
(* One step of the model is one JavaScript task of the hook: an exported   *)
(* entry point, a timer callback, the resumption of processNext after an   *)
(* await.  React commits the state updates of a task and runs the effects  *)
(* that depend on them (the queueRef mirror, lines 41-43, and the          *)
(* auto-start effect, lines 291-299) before the next task of the hook, so  *)
(* every step ends with that commit.                                       *)
(*                                                                         *)
(* A "chain" is one processNext continuation: the code between two awaits  *)
(* or timers of one logical loop.  The code intends one chain at a time,   *)
(* but nothing in it forces that, so the model keeps a bounded pool.       *)
(***************************************************************************)
EXTENDS Integers, Sequences, FiniteSets, TLC

\* useUploadQueue.ts:24
MAX_RETRIES == 5

\* Bounds of the model: the items a session knows (store leftover and
\* addToQueue calls), the clearQueue and loadOfflineQueue calls, the
\* consecutive rate_limit outcomes and the error outcomes of a run.
MaxItems == 2
MaxClears == 1
MaxLoads == 1
MaxRateLimitHits == 2
MaxErrors == 6

\* The consecutive rate_limit outcomes of the runs that explore the pause
\* lengths.
MaxPauseHits == 5

\* The attempts getBackoffDelay is explored for, and the grain of its random
\* draw.
MaxAttempt == 19
RandDen == 4

\* The tokens the owner hands to the hook one after the other.
MaxKeys == 2

\* The rate limiter's clients that are followed, the calls the first of
\* them and each of the others makes within one window, and the times the
\* clock moves on.
MaxClients == 2
MaxCalls == 22
MaxOtherCalls == 2
MaxAdvances == 2

\* The fetchToken calls of a session.
MaxFetches == 3

\* The items of a batch that is enqueued at once.
MaxBatch == 3

\* A chain outlives the processingRef guard only through clearQueue, so the
\* pool needs one continuation more than there are clearQueue calls.
MaxChains == MaxClears + 1

\* The queue lengths explored.
MaxQueueLen == MaxItems

VARIABLES
    queue,                    \* useState<CaptureItem[]>            (line 28)
    isUploading,              \* useState(false)                    (line 29)
    isRateLimited,            \* useState(false)                    (line 30)
    mountedRef,               \* useRef(true)                       (line 33)
    processingRef,            \* useRef(false)                      (line 34)
    nextTimerRef,             \* the pending timer it refers to, 0 if none (line 35)
    rateLimitTimerRef,        \* the pending timer it refers to, 0 if none (line 36)
    queueRef,                 \* mirror of queue                    (line 37)
    consecutiveRateLimitsRef, \* useRef(0)                          (line 38)
    store,                    \* the idb-keyval records under STORE_PREFIX
    chains,                   \* the processNext continuations
    nextId,                   \* the next id generateSessionId() hands out
    clears,                   \* clearQueue calls so far
    loads,                    \* loadOfflineQueue calls so far
    errorsSeen,               \* error outcomes so far (bounded by MaxErrors)
    apiKey,                   \* the apiKey argument of the latest render (line 26)
    closureKey,               \* per continuation, the apiKey its uploadItem closed over
    server,                   \* the upload route's process: its clock, rateLimitMap
                              \* and the latest isRateLimited result (part_004)
    session,                  \* CaptureSession's token effect: where fetchToken
                              \* stands, cancelled and tokenRefreshRef (part_003)
    received                  \* history: per queue entry, the error outcomes it has
                              \* received since it was created or reset by
                              \* retryFailed (a re-hydrated entry starts with the
                              \* count its record carries)

vars == <<queue, isUploading, isRateLimited, mountedRef, processingRef,
          nextTimerRef, rateLimitTimerRef, queueRef, consecutiveRateLimitsRef,
          store, chains, nextId, clears, loads, received, errorsSeen,
          apiKey, closureKey, server, session>>

Chains == 1..MaxChains

\* apiKey values: the empty string CaptureSession starts with (part_003:58)
\* and the tokens it fetches later.
EmptyKey == 0

Keys == 0..MaxKeys

\* closureKey of a continuation that does not exist.
NoKey == -1

\* One more error outcome in the history count, which stops at "more than
\* MAX_RETRIES".
Counted(n) == IF n > MAX_RETRIES THEN n ELSE n + 1

----------------------------------------------------------------------------
(* CaptureItem (types/index.ts).  The payload (imageBase64, metadata,       *)
(* filename) is never written after creation and is left out.              *)

NoMessage == "undefined"

MaxRetriesMessage == "Max retries exceeded"

RetryMessage(n) ==
    CASE n = 1 -> "Upload failed, retry 1/5"
      [] n = 2 -> "Upload failed, retry 2/5"
      [] n = 3 -> "Upload failed, retry 3/5"
      [] n = 4 -> "Upload failed, retry 4/5"
      [] OTHER -> "Upload failed, retry n/5"

NewItem(id) ==
    [id |-> id, status |-> "pending", retryCount |-> 0, errorMessage |-> NoMessage]

\* The id of the one record a previous session may have left in the store.
PriorId == 0

\* What a previous session's terminal failure wrote (lines 211-215).
PriorItem ==
    [id |-> PriorId, status |-> "error", retryCount |-> MAX_RETRIES,
     errorMessage |-> RetryMessage(MAX_RETRIES - 1)]

NoItem == [id |-> -1, status |-> "none", retryCount |-> 0, errorMessage |-> NoMessage]

\* A continuation: where it waits (pc), the item it captured at selection
\* (nextItem), and whether clearQueue ran while its uploadItem call was
\* outstanding (cleared: history only, the code keeps no such flag).
\* A rate-limit timer also carries the delay it was scheduled with (waitMs).
IdleChain == [pc |-> "none", nextItem |-> NoItem, cleared |-> FALSE, waitMs |-> 0]

TimerChain(kind) == [pc |-> kind, nextItem |-> NoItem, cleared |-> FALSE, waitMs |-> 0]

\* useUploadQueue.ts:175
baseBackoffMs == 30000

\* useUploadQueue.ts:176
MaxBackoffMs == 180000

\* useUploadQueue.ts:177
JitterSpanMs == 5000

\* Math.random() * 5000 lies in [0, 5000); the model draws its two ends in
\* whole milliseconds.
Jitters == {0, JitterSpanMs - 1}

Min(a, b) == IF a <= b THEN a ELSE b

\* A pause without the 180 s ceiling.
RateLimitPause_Uncapped(hitCount, jitter) ==
    baseBackoffMs * 2 ^ (hitCount - 1) + jitter

\* totalWaitMs of the rate_limit branch (lines 175-178).
RateLimitPause(hitCount, jitter) ==
    Min(baseBackoffMs * 2 ^ (hitCount - 1), MaxBackoffMs) + jitter

\* lib/indexed-db.ts:111-112, the defaults of getBackoffDelay
baseDelay == 1000

maxDelay == 30000

\* Math.random() as n / RandDen.  Math.random() is below 1, but for a draw
\* within rounding of 1 the double sum delay + jitter is delay * 1.1 itself,
\* which is what n = RandDen stands for.
Draws == 0..RandDen

\* Math.min(baseDelay * Math.pow(2, attempt), maxDelay) (line 114)
BackoffBase(attempt) == Min(baseDelay * 2 ^ attempt, maxDelay)

\* A jitter of +/-20%.
getBackoffDelay_WideJitter(attempt, n) ==
    (BackoffBase(attempt) * (8 * RandDen + 4 * n)) \div (10 * RandDen)

\* getBackoffDelay (lines 109-118): Math.floor(delay + delay * 0.1 * (r * 2 - 1))
\* with r = n / RandDen, that is floor(delay * (9 * RandDen + 2 * n) / (10 * RandDen)).
getBackoffDelay(attempt, n) ==
    (BackoffBase(attempt) * (9 * RandDen + 2 * n)) \div (10 * RandDen)

PauseChain(ms) ==
    [pc |-> "rateLimitTimer", nextItem |-> NoItem, cleared |-> FALSE, waitMs |-> ms]

----------------------------------------------------------------------------
(* lib/indexed-db.ts: the store is a set of records, at most one per key.  *)

\* A set that adds the record beside the one the key already has.
saveToOfflineQueue_KeepsOld(st, capture) == st \cup {capture}

saveToOfflineQueue(st, capture) ==
    {r \in st : r.id # capture.id} \cup {capture}

\* A delete that misses its key.
removeFromOfflineQueue_WrongKey(st, captureId) == st

removeFromOfflineQueue(st, captureId) ==
    {r \in st : r.id # captureId}

RECURSIVE KeyOrder(_)
KeyOrder(st) ==
    IF st = {} THEN <<>>
    ELSE LET first == CHOOSE r \in st : \A o \in st : r.id <= o.id
         IN  <<first>> \o KeyOrder(st \ {first})

\* keys() lists the keys in ascending order; one get per key.
getOfflineQueue(st) == KeyOrder(st)

----------------------------------------------------------------------------
(* uploadItem (lines 69-102) and the HTTP exchanges it can see.            *)

\* fetch rejected: there is no response.
Threw == [status |-> 0, body |-> "none"]

\* The status codes told apart: 2xx, the 401 of a rejected credential, 429,
\* and a server error.
Statuses == {200, 201, 401, 429, 500}

\* What response.json() makes of the body: a rejection, null, an object whose
\* success is true, or an object whose success is anything else.
Bodies == {"unparsable", "null", "true", "false"}

Responses == {Threw} \cup [status : Statuses, body : Bodies]

\* response.ok
Ok(r) == r.status >= 200 /\ r.status <= 299

\* An adapter that takes every 2xx answer it can parse for a success.
uploadItem_OkMeansSuccess(r) ==
    IF r = Threw THEN "error"
    ELSE IF r.status = 429 THEN "rate_limit"
    ELSE IF ~Ok(r) THEN "error"
    ELSE IF r.body = "unparsable" THEN "error"
    ELSE "success"

\* uploadItem, as a function of the exchange.  Every rejection inside the
\* try block (fetch, response.json(), reading success of null) ends in the
\* catch of lines 96-99.
uploadItem(r) ==
    IF r = Threw THEN "error"
    ELSE IF r.status = 429 THEN "rate_limit"
    ELSE IF ~Ok(r) THEN "error"
    ELSE IF r.body \in {"unparsable", "null"} THEN "error"
    ELSE IF r.body = "true" THEN "success"
    ELSE "error"

----------------------------------------------------------------------------
(* Helpers of processNext.                                                 *)

Eligible(item) == item.status = "pending" /\ item.retryCount < MAX_RETRIES

\* A find that returns the last match.
FindNext_Last(q) ==
    IF \E i \in DOMAIN q : q[i].status = "pending" /\ q[i].retryCount < MAX_RETRIES
    THEN CHOOSE i \in DOMAIN q :
             /\ q[i].status = "pending" /\ q[i].retryCount < MAX_RETRIES
             /\ \A j \in DOMAIN q :
                   j > i => ~(q[j].status = "pending" /\ q[j].retryCount < MAX_RETRIES)
    ELSE 0

\* currentQueue.find(...): the index of the first eligible item, 0 if none.
FindNext(q) ==
    IF \E i \in DOMAIN q : Eligible(q[i])
    THEN CHOOSE i \in DOMAIN q :
             Eligible(q[i]) /\ \A j \in DOMAIN q : j < i => ~Eligible(q[j])
    ELSE 0

\* queue.some(...) of the auto-start effect.
HasPending(q) == \E i \in DOMAIN q : Eligible(q[i])

\* A status update that takes the item out and puts it back at the end.
MarkStatus_Requeue(q, id, status) ==
    SelectSeq(q, LAMBDA item : item.id # id)
        \o [i \in 1..Len(SelectSeq(q, LAMBDA item : item.id = id)) |->
               [SelectSeq(q, LAMBDA item : item.id = id)[i] EXCEPT !.status = status]]

\* prev.map((q) => (q.id === id ? { ...q, status } : q))
MarkStatus(q, id, status) ==
    [i \in DOMAIN q |-> IF q[i].id = id THEN [q[i] EXCEPT !.status = status] ELSE q[i]]

\* The error branch's map (lines 194-207).
MarkError(q, id, newRetryCount) ==
    [i \in DOMAIN q |->
        IF q[i].id = id
        THEN [q[i] EXCEPT
                !.status = IF newRetryCount >= MAX_RETRIES THEN "error" ELSE "pending",
                !.retryCount = newRetryCount,
                !.errorMessage = IF newRetryCount >= MAX_RETRIES
                                 THEN MaxRetriesMessage
                                 ELSE RetryMessage(newRetryCount)]
        ELSE q[i]]

\* A reset that takes every finished item, 'success' included.
ResetFailed_AnyFinished(q) ==
    [i \in DOMAIN q |->
        IF q[i].status \in {"error", "success"}
        THEN [q[i] EXCEPT !.status = "pending", !.retryCount = 0]
        ELSE q[i]]

\* A reset that ignores the ceiling.
ResetFailed_AnyError(q) ==
    [i \in DOMAIN q |->
        IF q[i].status = "error"
        THEN [q[i] EXCEPT !.status = "pending", !.retryCount = 0]
        ELSE q[i]]

\* A reset that hands back one retry per call.
ResetFailed_OneRetryBack(q) ==
    [i \in DOMAIN q |->
        IF q[i].status \in {"error", "pending"} /\ q[i].retryCount > 0
        THEN [q[i] EXCEPT !.status = "pending", !.retryCount = q[i].retryCount - 1]
        ELSE q[i]]

\* A reset that takes every item that has not succeeded yet but is not waiting.
ResetFailed_Unfinished(q) ==
    [i \in DOMAIN q |->
        IF q[i].status \in {"error", "uploading"}
        THEN [q[i] EXCEPT !.status = "pending", !.retryCount = 0]
        ELSE q[i]]

\* The map of retryFailed (lines 257-263).
ResetFailed(q) ==
    [i \in DOMAIN q |->
        IF q[i].status = "error" /\ q[i].retryCount >= MAX_RETRIES
        THEN [q[i] EXCEPT !.status = "pending", !.retryCount = 0]
        ELSE q[i]]

FreeChains(ch) == {c \in Chains : ch[c].pc = "none"}

FreeChain(ch) == CHOOSE c \in FreeChains(ch) : \A d \in FreeChains(ch) : c <= d

----------------------------------------------------------------------------
(* The part of the hook's state one task works on, as a record, so that a  *)
(* handler and the effects that follow it compose.                         *)

Cur ==
    [queue |-> queue, queueRef |-> queueRef, isUploading |-> isUploading,
     processingRef |-> processingRef, chains |-> chains]

\* setQueue, then the commit: lines 41-43 copy the new queue into queueRef.
SetQueue(s, q) == [s EXCEPT !.queue = q, !.queueRef = q]

\* A processNext that calls uploadItem without the backoff wait of lines
\* 136-140.
ProcessNext_NoBackoff(s, c) ==
    LET idx == FindNext(s.queueRef) IN
    IF idx = 0
    THEN [s EXCEPT !.processingRef = FALSE, !.isUploading = FALSE,
                   !.chains[c] = IdleChain]
    ELSE LET nextItem == s.queueRef[idx]
             marked == SetQueue(s, MarkStatus(s.queue, nextItem.id, "uploading"))
         IN  [marked EXCEPT
                !.isUploading = TRUE,
                !.chains[c] = [pc |-> "upload", nextItem |-> nextItem,
                               cleared |-> FALSE, waitMs |-> 0]]

\* processNext up to its first await (lines 107-142), run by chain c of a
\* mounted hook.
ProcessNext(s, c) ==
    LET idx == FindNext(s.queueRef) IN
    IF idx = 0
    THEN [s EXCEPT !.processingRef = FALSE, !.isUploading = FALSE,
                   !.chains[c] = IdleChain]
    ELSE LET nextItem == s.queueRef[idx]
             marked == SetQueue(s, MarkStatus(s.queue, nextItem.id, "uploading"))
         IN  [marked EXCEPT
                !.isUploading = TRUE,
                !.chains[c] = [pc |-> IF nextItem.retryCount > 0 THEN "backoff" ELSE "upload",
                               nextItem |-> nextItem, cleared |-> FALSE, waitMs |-> 0]]

\* Whether the auto-start effect (lines 291-299) calls startProcessing and
\* startProcessing (lines 228-232) goes on to processNext.
Starts(s, rateLimited) ==
    HasPending(s.queue) /\ ~s.processingRef /\ ~rateLimited

\* The auto-start effect followed by startProcessing.
AutoStart(s, rateLimited) ==
    IF Starts(s, rateLimited)
    THEN ProcessNext([s EXCEPT !.processingRef = TRUE], FreeChain(s.chains))
    ELSE s

\* The pool has a continuation for the chain the effect would start.
Fits(s, rateLimited) == Starts(s, rateLimited) => FreeChains(s.chains) # {}

\* A continuation that starts in this task runs the processNext of the
\* latest render, and with it that render's uploadItem and apiKey (the
\* dependency lists of lines 101, 223, 232 and 299); a continuation that
\* goes on from a timer or an await keeps the closure it started with.
Captures ==
    closureKey' =
        [c \in Chains |->
            IF chains'[c].pc = "none" THEN NoKey
            ELSE IF chains[c].pc = "none" THEN apiKey'
            ELSE closureKey[c]]

Install(s) ==
    /\ queue' = s.queue
    /\ queueRef' = s.queueRef
    /\ isUploading' = s.isUploading
    /\ processingRef' = s.processingRef
    /\ chains' = s.chains

\* clearTimeout(ref.current): the chain whose timer the ref names dies with it.
ClearTimer(ch, ref, kind) ==
    [c \in Chains |-> IF c = ref /\ ch[c].pc = kind THEN IdleChain ELSE ch[c]]

\* A ref once its timer has fired or been cancelled.
Spent(ref, c) == IF ref = c THEN 0 ELSE ref

----------------------------------------------------------------------------
\* CaptureSession's token effect (part_003:75-109).

\* The refresh is scheduled this long before the token expires (part_003:91).
RefreshLeadMs == 120000

\* The wait before fetchToken is tried again after a throw (part_003:98).
RetryTokenMs == 5000

\* data.expiresAt - Date.now() of the tokens the route hands out: one that
\* expires within the lead, one that outlives it.
TokenLifetimes == {60000, 900000}

\* The effect as it is once it has run at mount: fetchToken is outstanding,
\* no refresh timer is pending.  pc is "fetching" while the fetch or the
\* parse is awaited, "timer" while tokenRefreshRef's timer is pending,
\* "none" when neither is; last is how the latest fetchToken ended and
\* fetches counts the fetchToken calls.
MountedSession ==
    [pc |-> "fetching", cancelled |-> FALSE, waitMs |-> 0, last |-> "none",
     fetches |-> 1]

\* The cleanup of lines 105-108: cancelled = true, clearTimeout.
CancelSession(ss) ==
    [ss EXCEPT !.cancelled = TRUE,
               !.pc = IF @ = "timer" THEN "none" ELSE @]

----------------------------------------------------------------------------
\* The upload route's in-memory rate limiter (part_004:169-212).

RATE_LIMIT_WINDOW_MS == 10000
RATE_LIMIT_MAX_REQUESTS == 20

\* The size above which cleanupRateLimitMap empties the map (part_004:191).
RateLimitMapCap == 10000

\* The clients whose calls are followed.
ClientIds == 1..MaxClients

\* The calls explored for a client within one window.
CallsOf(clientId) == IF clientId = 1 THEN MaxCalls ELSE MaxOtherCalls

\* rateLimitMap.get(clientId) when the map has no entry for clientId.
NoEntry == [count |-> 0, resetAt |-> -1]

NoReply == [clientId |-> 0, limited |-> FALSE, remaining |-> 0, resetAt |-> -1]

\* The route's process at time now with an empty map.  others stands for
\* the entries of clients that are not followed: how many there are and
\* when they expire.  seen is history: per followed client, the calls it
\* has made since its window opened and the time that window ends.
ServerAt(now, others) ==
    [now |-> now,
     rateLimitMap |-> [id \in ClientIds |-> NoEntry],
     others |-> others,
     reply |-> NoReply,
     seen |-> [id \in ClientIds |-> [n |-> 0, resetAt |-> -1]],
     advances |-> 0]

IdleServer == ServerAt(0, [count |-> 0, resetAt |-> -1])

\* rateLimitMap.size
MapSize(m, others) ==
    Cardinality({id \in ClientIds : m[id] # NoEntry}) + others.count

\* cleanupRateLimitMap() (part_004:182-194): the expired entries go, and
\* the whole map goes if it still holds more than RateLimitMapCap entries.
cleanupRateLimitMap(m, others, now) ==
    LET live == [id \in ClientIds |->
                    IF m[id] # NoEntry /\ now > m[id].resetAt THEN NoEntry ELSE m[id]]
        rest == IF now > others.resetAt THEN [others EXCEPT !.count = 0] ELSE others
    IN  IF MapSize(live, rest) > RateLimitMapCap
        THEN [map |-> [id \in ClientIds |-> NoEntry],
              others |-> [rest EXCEPT !.count = 0]]
        ELSE [map |-> live, others |-> rest]

\* The entry isRateLimited counts the call in (part_004:199-203).
WindowEntry(entry, now) ==
    IF entry = NoEntry \/ now > entry.resetAt
    THEN [count |-> 0, resetAt |-> now + RATE_LIMIT_WINDOW_MS]
    ELSE entry

\* isRateLimited(clientId) (part_004:196-212); cleans is the outcome of
\* Math.random() < 0.1.
ServerIsRateLimited(clientId, cleans) ==
    LET now == server.now
        kept == IF cleans
                THEN cleanupRateLimitMap(server.rateLimitMap, server.others, now)
                ELSE [map |-> server.rateLimitMap, others |-> server.others]
        entry == WindowEntry(kept.map[clientId], now)
        counted == [entry EXCEPT !.count = @ + 1]
        was == server.seen[clientId]
        opens == was.n = 0 \/ now > was.resetAt
        window == IF opens THEN [n |-> 1, resetAt |-> now + RATE_LIMIT_WINDOW_MS]
                 ELSE [was EXCEPT !.n = @ + 1]
    IN  /\ window.n <= CallsOf(clientId)
        /\ server' = [server EXCEPT
                         !.rateLimitMap = [kept.map EXCEPT ![clientId] = counted],
                         !.others = kept.others,
                         !.reply = [clientId |-> clientId,
                                    limited |-> counted.count > RATE_LIMIT_MAX_REQUESTS,
                                    remaining |-> IF RATE_LIMIT_MAX_REQUESTS - counted.count > 0
                                                  THEN RATE_LIMIT_MAX_REQUESTS - counted.count
                                                  ELSE 0,
                                    resetAt |-> counted.resetAt],
                         !.seen = [@ EXCEPT ![clientId] = window]]
        /\ UNCHANGED <<queue, isUploading, isRateLimited, mountedRef, processingRef,
                       nextTimerRef, rateLimitTimerRef, queueRef,
                       consecutiveRateLimitsRef, store, chains, nextId, clears,
                       loads, received, errorsSeen, apiKey, closureKey, session>>

\* Date.now() moves on between two requests, by a millisecond or a window.
Advance(ms) ==
    /\ server.advances < MaxAdvances
    /\ server' = [server EXCEPT !.now = @ + ms, !.advances = @ + 1]
    /\ UNCHANGED <<queue, isUploading, isRateLimited, mountedRef, processingRef,
                   nextTimerRef, rateLimitTimerRef, queueRef,
                   consecutiveRateLimitsRef, store, chains, nextId, clears,
                   loads, received, errorsSeen, apiKey, closureKey, session>>

\* The route's process with no entry for the followed clients, and either
\* no other entry or RateLimitMapCap entries of other clients that called
\* in the instant before; no capture session is involved.
InitServer ==
    /\ \E n \in {0, RateLimitMapCap} :
         server = ServerAt(0, [count |-> n,
                               resetAt |-> IF n = 0 THEN -1 ELSE RATE_LIMIT_WINDOW_MS])
    /\ queue = <<>>
    /\ queueRef = <<>>
    /\ isUploading = FALSE
    /\ isRateLimited = FALSE
    /\ mountedRef = TRUE
    /\ processingRef = FALSE
    /\ nextTimerRef = 0
    /\ rateLimitTimerRef = 0
    /\ consecutiveRateLimitsRef = 0
    /\ store = {}
    /\ chains = [c \in Chains |-> IdleChain]
    /\ nextId = 1
    /\ clears = 0
    /\ received = <<>>
    /\ errorsSeen = 0
    /\ loads = 0
    /\ apiKey = EmptyKey
    /\ closureKey = [c \in Chains |-> NoKey]
    /\ session = MountedSession

NextServer ==
    \/ \E clientId \in ClientIds, cleans \in BOOLEAN :
          ServerIsRateLimited(clientId, cleans)
    \/ \E ms \in {1, RATE_LIMIT_WINDOW_MS} : Advance(ms)

SpecServer == InitServer /\ [][NextServer]_vars

----------------------------------------------------------------------------
Init ==
    /\ queue = <<>>
    /\ queueRef = <<>>
    /\ isUploading = FALSE
    /\ isRateLimited = FALSE
    /\ mountedRef = TRUE
    /\ processingRef = FALSE
    /\ nextTimerRef = 0
    /\ rateLimitTimerRef = 0
    /\ consecutiveRateLimitsRef = 0
    /\ store \in {{}, {PriorItem}}
    /\ chains = [c \in Chains |-> IdleChain]
    /\ nextId = 1 + Cardinality(store)   \* MaxItems counts the store's leftover too
    /\ clears = 0
    /\ received = <<>>
    /\ errorsSeen = 0
    /\ loads = 0
    /\ apiKey = EmptyKey
    /\ closureKey = [c \in Chains |-> IF chains[c].pc = "none" THEN NoKey ELSE apiKey]
    /\ server = IdleServer
    /\ session = MountedSession

\* addToQueue (lines 237-251)
AddToQueue ==
    /\ mountedRef
    /\ nextId <= MaxItems
    /\ Len(queue) < MaxQueueLen
    /\ LET s == SetQueue(Cur, Append(queue, NewItem(nextId))) IN
         /\ Fits(s, isRateLimited)
         /\ Install(AutoStart(s, isRateLimited))
    /\ nextId' = nextId + 1
    /\ received' = Append(received, 0)
    /\ apiKey' = apiKey
    /\ server' = server
    /\ session' = session
    /\ Captures
    /\ UNCHANGED <<isRateLimited, mountedRef, nextTimerRef, rateLimitTimerRef,
                   consecutiveRateLimitsRef, store, clears, loads, errorsSeen>>

\* retryFailed (lines 256-264)
RetryFailed ==
    /\ mountedRef
    /\ LET s == SetQueue(Cur, ResetFailed(queue)) IN
         /\ Fits(s, isRateLimited)
         /\ Install(AutoStart(s, isRateLimited))
    /\ received' =
         [i \in DOMAIN queue |->
            IF queue[i].status = "error" /\ queue[i].retryCount >= MAX_RETRIES
            THEN 0
            ELSE received[i]]
    /\ apiKey' = apiKey
    /\ server' = server
    /\ session' = session
    /\ Captures
    /\ UNCHANGED <<isRateLimited, mountedRef, nextTimerRef, rateLimitTimerRef,
                   consecutiveRateLimitsRef, store, nextId, clears, loads, errorsSeen>>

\* A clearQueue that also empties the store.
ClearQueue_WipesStore ==
    /\ mountedRef
    /\ clears < MaxClears
    /\ clears' = clears + 1
    /\ LET cancelled == ClearTimer(ClearTimer(chains, nextTimerRef, "nextTimer"),
                                   rateLimitTimerRef, "rateLimitTimer")
           noted == [c \in Chains |->
                        IF cancelled[c].pc = "upload"
                        THEN [cancelled[c] EXCEPT !.cleared = TRUE]
                        ELSE cancelled[c]]
           s == [SetQueue(Cur, <<>>) EXCEPT !.processingRef = FALSE,
                                            !.chains = noted]
       IN  Install(AutoStart(s, isRateLimited))
    /\ nextTimerRef' = 0
    /\ rateLimitTimerRef' = 0
    /\ received' = <<>>
    /\ apiKey' = apiKey
    /\ server' = server
    /\ session' = session
    /\ Captures
    /\ store' = {}
    /\ UNCHANGED <<isRateLimited, mountedRef, consecutiveRateLimitsRef, nextId, loads, errorsSeen>>

\* clearQueue (lines 269-274)
ClearQueue ==
    /\ mountedRef
    /\ clears < MaxClears
    /\ clears' = clears + 1
    /\ LET cancelled == ClearTimer(ClearTimer(chains, nextTimerRef, "nextTimer"),
                                   rateLimitTimerRef, "rateLimitTimer")
           noted == [c \in Chains |->
                        IF cancelled[c].pc = "upload"
                        THEN [cancelled[c] EXCEPT !.cleared = TRUE]
                        ELSE cancelled[c]]
           s == [SetQueue(Cur, <<>>) EXCEPT !.processingRef = FALSE,
                                            !.chains = noted]
       IN  Install(AutoStart(s, isRateLimited))
    /\ nextTimerRef' = 0
    /\ rateLimitTimerRef' = 0
    /\ received' = <<>>
    /\ apiKey' = apiKey
    /\ server' = server
    /\ session' = session
    /\ Captures
    /\ UNCHANGED <<isRateLimited, mountedRef, consecutiveRateLimitsRef, store, nextId, loads, errorsSeen>>

\* loadOfflineQueue (lines 279-288), run on mount (lines 302-304) and exported
LoadOfflineQueue ==
    /\ mountedRef
    /\ loads < MaxLoads
    /\ loads' = loads + 1
    /\ store # {}
    /\ Len(queue) + Cardinality(store) <= MaxQueueLen
    /\ LET s == SetQueue(Cur, queue \o getOfflineQueue(store)) IN
         /\ Fits(s, isRateLimited)
         /\ Install(AutoStart(s, isRateLimited))
    /\ received' = received \o [i \in 1..Cardinality(store) |-> getOfflineQueue(store)[i].retryCount]
    /\ apiKey' = apiKey
    /\ server' = server
    /\ session' = session
    /\ Captures
    /\ UNCHANGED <<isRateLimited, mountedRef, nextTimerRef, rateLimitTimerRef,
                   consecutiveRateLimitsRef, store, nextId, clears, errorsSeen>>

\* The owner renders the hook with another apiKey (part_003:88, 118): the
\* callbacks are made anew and the auto-start effect runs again.
SetApiKey(k) ==
    /\ mountedRef
    /\ k # apiKey
    /\ apiKey' = k
    /\ server' = server
    /\ session' = session
    /\ Fits(Cur, isRateLimited)
    /\ Install(AutoStart(Cur, isRateLimited))
    /\ Captures
    /\ UNCHANGED <<isRateLimited, mountedRef, nextTimerRef, rateLimitTimerRef,
                   consecutiveRateLimitsRef, store, nextId, clears, loads, received, errorsSeen>>

\* The component unmounts: the cleanup of the hook's mount effect (lines
\* 48-52) and the cleanup of CaptureSession's token effect (part_003:105-108).
Unmount ==
    /\ mountedRef
    /\ mountedRef' = FALSE
    /\ chains' = ClearTimer(ClearTimer(chains, nextTimerRef, "nextTimer"),
                            rateLimitTimerRef, "rateLimitTimer")
    /\ nextTimerRef' = 0
    /\ rateLimitTimerRef' = 0
    /\ apiKey' = apiKey
    /\ server' = server
    /\ session' = CancelSession(session)
    /\ Captures
    /\ UNCHANGED <<queue, queueRef, isUploading, isRateLimited, processingRef,
                   consecutiveRateLimitsRef, store, nextId, clears, loads, received, errorsSeen>>

\* The inter-item timer's callback (lines 156-158, 219-221)
NextTimerFires(c) ==
    /\ chains[c].pc = "nextTimer"
    /\ nextTimerRef' = Spent(nextTimerRef, c)
    /\ IF mountedRef
       THEN LET s == ProcessNext(Cur, c) IN
              /\ Fits(s, isRateLimited)
              /\ Install(AutoStart(s, isRateLimited))
       ELSE Install([Cur EXCEPT !.chains[c] = IdleChain])
    /\ apiKey' = apiKey
    /\ server' = server
    /\ session' = session
    /\ Captures
    /\ UNCHANGED <<isRateLimited, mountedRef, rateLimitTimerRef,
                   consecutiveRateLimitsRef, store, nextId, clears, loads, received, errorsSeen>>

\* A rate-limit timer callback that lifts the pause without calling processNext.
RateLimitTimerFires_NoResume(c) ==
    /\ chains[c].pc = "rateLimitTimer"
    /\ rateLimitTimerRef' = Spent(rateLimitTimerRef, c)
    /\ LET s == [Cur EXCEPT !.chains[c] = IdleChain] IN
         /\ Fits(s, FALSE)
         /\ Install(AutoStart(s, FALSE))
    /\ isRateLimited' = (IF mountedRef THEN FALSE ELSE isRateLimited)
    /\ apiKey' = apiKey
    /\ server' = server
    /\ session' = session
    /\ Captures
    /\ UNCHANGED <<mountedRef, nextTimerRef, consecutiveRateLimitsRef, store, nextId, clears, loads, received, errorsSeen>>

\* The rate-limit timer's callback (lines 182-187)
RateLimitTimerFires(c) ==
    /\ chains[c].pc = "rateLimitTimer"
    /\ rateLimitTimerRef' = Spent(rateLimitTimerRef, c)
    /\ IF mountedRef
       THEN LET s == ProcessNext(Cur, c) IN
              /\ Fits(s, FALSE)
              /\ Install(AutoStart(s, FALSE))
              /\ isRateLimited' = FALSE
       ELSE /\ Install([Cur EXCEPT !.chains[c] = IdleChain])
            /\ UNCHANGED isRateLimited
    /\ apiKey' = apiKey
    /\ server' = server
    /\ session' = session
    /\ Captures
    /\ UNCHANGED <<mountedRef, nextTimerRef, consecutiveRateLimitsRef, store, nextId, clears, loads, received, errorsSeen>>

\* The backoff wait without the mountedRef check of line 139.
BackoffElapses_NoMountedCheck(c) ==
    /\ chains[c].pc = "backoff"
    /\ chains' = [chains EXCEPT ![c] = [@ EXCEPT !.pc = "upload"]]
    /\ apiKey' = apiKey
    /\ server' = server
    /\ session' = session
    /\ Captures
    /\ UNCHANGED <<queue, queueRef, isUploading, isRateLimited, mountedRef,
                   processingRef, nextTimerRef, rateLimitTimerRef,
                   consecutiveRateLimitsRef, store, nextId, clears, loads, received, errorsSeen>>

\* The per-item backoff wait, getBackoffDelay(nextItem.retryCount) ms long,
\* ends (lines 136-142): uploadItem is called
BackoffElapses(c) ==
    /\ chains[c].pc = "backoff"
    /\ \E n \in Draws :
         chains' = [chains EXCEPT ![c] =
                      IF mountedRef
                      THEN [@ EXCEPT !.pc = "upload",
                                     !.waitMs = getBackoffDelay(chains[c].nextItem.retryCount, n)]
                      ELSE IdleChain]
    /\ apiKey' = apiKey
    /\ server' = server
    /\ session' = session
    /\ Captures
    /\ UNCHANGED <<queue, queueRef, isUploading, isRateLimited, mountedRef,
                   processingRef, nextTimerRef, rateLimitTimerRef,
                   consecutiveRateLimitsRef, store, nextId, clears, loads, received, errorsSeen>>

\* The result handled without the mountedRef check of line 143.
ResolvesUnmounted_NoMountedCheck(c) ==
    /\ chains[c].pc = "upload"
    /\ ~mountedRef
    /\ chains' = [chains EXCEPT ![c] = TimerChain("rateLimitTimer")]
    /\ consecutiveRateLimitsRef' = consecutiveRateLimitsRef + 1
    /\ isRateLimited' = TRUE
    /\ rateLimitTimerRef' = c
    /\ apiKey' = apiKey
    /\ server' = server
    /\ session' = session
    /\ Captures
    /\ UNCHANGED <<queue, queueRef, isUploading, mountedRef, processingRef,
                   nextTimerRef, store, nextId, clears, loads, received, errorsSeen>>

\* uploadItem resolved after teardown (line 143)
ResolvesUnmounted(c) ==
    /\ chains[c].pc = "upload"
    /\ ~mountedRef
    /\ chains' = [chains EXCEPT ![c] = IdleChain]
    /\ apiKey' = apiKey
    /\ server' = server
    /\ session' = session
    /\ Captures
    /\ UNCHANGED <<queue, queueRef, isUploading, isRateLimited, mountedRef,
                   processingRef, nextTimerRef, rateLimitTimerRef,
                   consecutiveRateLimitsRef, store, nextId, clears, loads, received, errorsSeen>>

\* A success branch that leaves the consecutive rate-limit counter alone.
UploadSucceeds_KeepsCounter(c) ==
    /\ chains[c].pc = "upload"
    /\ mountedRef
    /\ LET nextItem == chains[c].nextItem
           s == [SetQueue(Cur, MarkStatus(queue, nextItem.id, "success"))
                   EXCEPT !.chains[c] = TimerChain("nextTimer")]
       IN  /\ Fits(s, isRateLimited)
           /\ Install(AutoStart(s, isRateLimited))
           /\ store' = removeFromOfflineQueue(store, nextItem.id)
    /\ nextTimerRef' = c
    /\ apiKey' = apiKey
    /\ server' = server
    /\ session' = session
    /\ Captures
    /\ UNCHANGED <<isRateLimited, mountedRef, rateLimitTimerRef, nextId, clears, loads,
                   received, errorsSeen, consecutiveRateLimitsRef>>

\* uploadItem resolved to 'success' (lines 145-158)
UploadSucceeds(c) ==
    /\ chains[c].pc = "upload"
    /\ mountedRef
    /\ LET nextItem == chains[c].nextItem
           s == [SetQueue(Cur, MarkStatus(queue, nextItem.id, "success"))
                   EXCEPT !.chains[c] = TimerChain("nextTimer")]
       IN  /\ Fits(s, isRateLimited)
           /\ Install(AutoStart(s, isRateLimited))
           /\ store' = removeFromOfflineQueue(store, nextItem.id)
    /\ consecutiveRateLimitsRef' = 0
    /\ nextTimerRef' = c
    /\ apiKey' = apiKey
    /\ server' = server
    /\ session' = session
    /\ Captures
    /\ UNCHANGED <<isRateLimited, mountedRef, rateLimitTimerRef, nextId, clears, loads, received, errorsSeen>>

\* A rate_limit branch that charges the item's retry budget.
UploadRateLimited_Charged(c) ==
    /\ chains[c].pc = "upload"
    /\ mountedRef
    /\ consecutiveRateLimitsRef < MaxRateLimitHits
    /\ LET nextItem == chains[c].nextItem
           charged == [i \in DOMAIN queue |->
                         IF queue[i].id = nextItem.id
                         THEN [queue[i] EXCEPT !.status = "pending",
                                               !.retryCount = nextItem.retryCount + 1]
                         ELSE queue[i]]
           s == [SetQueue(Cur, charged)
                   EXCEPT !.isUploading = FALSE,
                          !.chains[c] = TimerChain("rateLimitTimer")]
       IN  Install(s)
    /\ consecutiveRateLimitsRef' = consecutiveRateLimitsRef + 1
    /\ isRateLimited' = TRUE
    /\ rateLimitTimerRef' = c
    /\ apiKey' = apiKey
    /\ server' = server
    /\ session' = session
    /\ Captures
    /\ UNCHANGED <<mountedRef, nextTimerRef, store, nextId, clears, loads, received, errorsSeen>>

\* uploadItem resolved to 'rate_limit' (lines 160-187), explored up to cap
\* consecutive hits
UploadRateLimitedUpTo(c, cap) ==
    /\ chains[c].pc = "upload"
    /\ mountedRef
    /\ consecutiveRateLimitsRef < cap
    /\ \E jitter \in Jitters :
         LET nextItem == chains[c].nextItem
             hitCount == consecutiveRateLimitsRef + 1
             s == [SetQueue(Cur, MarkStatus(queue, nextItem.id, "pending"))
                     EXCEPT !.isUploading = FALSE,
                            !.chains[c] = PauseChain(RateLimitPause(hitCount, jitter))]
         IN  Install(AutoStart(s, TRUE))
    /\ consecutiveRateLimitsRef' = consecutiveRateLimitsRef + 1
    /\ isRateLimited' = TRUE
    /\ rateLimitTimerRef' = c
    /\ apiKey' = apiKey
    /\ server' = server
    /\ session' = session
    /\ Captures
    /\ UNCHANGED <<mountedRef, nextTimerRef, store, nextId, clears, loads, received, errorsSeen>>

\* uploadItem resolved to 'rate_limit' (lines 160-187)
UploadRateLimited(c) == UploadRateLimitedUpTo(c, MaxRateLimitHits)

\* uploadItem resolved to 'error' (lines 189-222)
UploadFails(c) ==
    /\ chains[c].pc = "upload"
    /\ mountedRef
    /\ LET nextItem == chains[c].nextItem
           newRetryCount == nextItem.retryCount + 1
           isFinalFailure == newRetryCount >= MAX_RETRIES
           s == [SetQueue(Cur, MarkError(queue, nextItem.id, newRetryCount))
                   EXCEPT !.chains[c] = TimerChain("nextTimer")]
       IN  /\ Fits(s, isRateLimited)
           /\ Install(AutoStart(s, isRateLimited))
           /\ store' = IF isFinalFailure
                       THEN saveToOfflineQueue(store,
                                [nextItem EXCEPT !.status = "error",
                                                 !.retryCount = newRetryCount])
                       ELSE store
    /\ nextTimerRef' = c
    /\ received' = [i \in DOMAIN queue |->
                        IF queue[i].id = chains[c].nextItem.id
                        THEN Counted(received[i])
                        ELSE received[i]]
    /\ errorsSeen < MaxErrors
    /\ errorsSeen' = errorsSeen + 1
    /\ apiKey' = apiKey
    /\ server' = server
    /\ session' = session
    /\ Captures
    /\ UNCHANGED <<isRateLimited, mountedRef, rateLimitTimerRef,
                   consecutiveRateLimitsRef, nextId, clears, loads>>

Next ==
    \/ AddToQueue
    \/ RetryFailed
    \/ ClearQueue
    \/ LoadOfflineQueue
    \/ Unmount
    \/ \E c \in Chains : NextTimerFires(c)
    \/ \E c \in Chains : RateLimitTimerFires(c)
    \/ \E c \in Chains : BackoffElapses(c)
    \/ \E c \in Chains : ResolvesUnmounted(c)
    \/ \E c \in Chains : UploadSucceeds(c)
    \/ \E c \in Chains : UploadRateLimited(c)
    \/ \E c \in Chains : UploadFails(c)

Spec == Init /\ [][Next]_vars

\* The engine's own steps: timers, backoff waits and adapter outcomes.
EngineStep ==
    \/ \E c \in Chains : NextTimerFires(c)
    \/ \E c \in Chains : RateLimitTimerFires(c)
    \/ \E c \in Chains : BackoffElapses(c)
    \/ \E c \in Chains : UploadSucceeds(c)
    \/ \E c \in Chains : UploadRateLimited(c)
    \/ \E c \in Chains : UploadFails(c)

\* A producer that only enqueues, and the engine.
NextProducer == AddToQueue \/ EngineStep

SpecProducer == Init /\ [][NextProducer]_vars

\* Every entry point but clearQueue, and the engine.
NextNoClear == AddToQueue \/ RetryFailed \/ LoadOfflineQueue \/ EngineStep

SpecNoClear == Init /\ [][NextNoClear]_vars

----------------------------------------------------------------------------
\* uploadProgress (lines 58-64), computed from the queue of the render.

uploadProgress_PendingOnly ==
    [success |-> Cardinality({i \in DOMAIN queue : queue[i].status = "success"}),
     failed |-> Cardinality({i \in DOMAIN queue :
                    queue[i].status = "error" /\ queue[i].retryCount >= MAX_RETRIES}),
     pending |-> Cardinality({i \in DOMAIN queue : queue[i].status = "pending"})]

uploadProgress ==
    [success |-> Cardinality({i \in DOMAIN queue : queue[i].status = "success"}),
     failed |-> Cardinality({i \in DOMAIN queue :
                    queue[i].status = "error" /\ queue[i].retryCount >= MAX_RETRIES}),
     pending |-> Cardinality({i \in DOMAIN queue :
                     queue[i].status = "pending" \/ queue[i].status = "uploading"})]

\* The hook after up to MaxBatch addToQueue calls in a row: the first item
\* was taken by the auto-start effect of its own commit, the others wait.
InitBatch ==
    /\ \E n \in 1..MaxBatch :
         /\ queue = [i \in 1..n |->
                        IF i = 1 THEN [NewItem(1) EXCEPT !.status = "uploading"]
                        ELSE NewItem(i)]
         /\ received = [i \in 1..n |-> 0]
         /\ nextId = n + 1
    /\ queueRef = queue
    /\ isUploading = TRUE
    /\ isRateLimited = FALSE
    /\ mountedRef = TRUE
    /\ processingRef = TRUE
    /\ nextTimerRef = 0
    /\ rateLimitTimerRef = 0
    /\ consecutiveRateLimitsRef = 0
    /\ store = {}
    /\ chains = [c \in Chains |->
                    IF c = 1
                    THEN [pc |-> "upload", nextItem |-> NewItem(1),
                          cleared |-> FALSE, waitMs |-> 0]
                    ELSE IdleChain]
    /\ clears = 0
    /\ errorsSeen = 0
    /\ loads = 0
    /\ apiKey = EmptyKey
    /\ closureKey = [c \in Chains |-> IF chains[c].pc = "none" THEN NoKey ELSE apiKey]
    /\ server = IdleServer
    /\ session = MountedSession

\* The batch is uploaded: retryFailed and the engine.
NextBatch == RetryFailed \/ EngineStep

SpecBatch == InitBatch /\ [][NextBatch]_vars

\* uploadItem of chain c resolves from exchange r, and processNext goes on
\* with its result (lines 142-222).
Responds(c, r) ==
    \/ uploadItem(r) = "success" /\ UploadSucceeds(c)
    \/ uploadItem(r) = "rate_limit" /\ UploadRateLimited(c)
    \/ uploadItem(r) = "error" /\ UploadFails(c)

\* A producer that only enqueues, and the engine with its adapter's exchanges.
NextAdapter ==
    \/ AddToQueue
    \/ \E c \in Chains : NextTimerFires(c)
    \/ \E c \in Chains : RateLimitTimerFires(c)
    \/ \E c \in Chains : BackoffElapses(c)
    \/ \E c \in Chains, r \in Responses : Responds(c, r)

SpecAdapter == Init /\ [][NextAdapter]_vars

\* A producer that only enqueues, an owner that refreshes the credential,
\* and the engine.
NextCredential ==
    \/ AddToQueue
    \/ \E k \in Keys : SetApiKey(k)
    \/ EngineStep

SpecCredential == Init /\ [][NextCredential]_vars

----------------------------------------------------------------------------
\* fetchToken's outcomes and its timer (part_003:78-101), with the render
\* of the hook that setUploadToken causes.

\* The hook's part of a step in which the hook is not rendered anew.
HookUnchanged ==
    /\ UNCHANGED <<queue, queueRef, isUploading, isRateLimited, mountedRef,
                   processingRef, nextTimerRef, rateLimitTimerRef,
                   consecutiveRateLimitsRef, store, chains, nextId, clears,
                   loads, received, errorsSeen, server, apiKey, closureKey>>

\* The response is OK and carries token k, valid for lifetime ms (lines
\* 86-93): the token goes to the hook and the refresh is scheduled.
TokenReceived(k, lifetime) ==
    /\ session.pc = "fetching"
    /\ IF session.cancelled
       THEN /\ session' = [session EXCEPT !.pc = "none", !.last = "token"]
            /\ HookUnchanged
       ELSE /\ session' = [session EXCEPT
                              !.pc = "timer",
                              !.last = "token",
                              !.waitMs = IF lifetime > RefreshLeadMs
                                         THEN lifetime - RefreshLeadMs ELSE 0]
            /\ IF k = apiKey
               THEN HookUnchanged
               ELSE /\ apiKey' = k
                    /\ Fits(Cur, isRateLimited)
                    /\ Install(AutoStart(Cur, isRateLimited))
                    /\ Captures
                    /\ UNCHANGED <<isRateLimited, mountedRef, nextTimerRef,
                                   rateLimitTimerRef, consecutiveRateLimitsRef,
                                   store, nextId, clears, loads, received,
                                   errorsSeen, server>>

\* The response is OK and carries no token (line 87, data.token falsy).
TokenMissing ==
    /\ session.pc = "fetching"
    /\ session' = [session EXCEPT !.pc = "none", !.last = "no_token"]
    /\ HookUnchanged

\* The response is not OK (lines 82-85): fetchToken returns.
TokenRefused ==
    /\ session.pc = "fetching"
    /\ session' = [session EXCEPT !.pc = "none", !.last = "not_ok"]
    /\ HookUnchanged

\* fetch or response.json() throws (lines 94-100): retry in 5 seconds.
TokenThrew ==
    /\ session.pc = "fetching"
    /\ session' = IF session.cancelled
                  THEN [session EXCEPT !.pc = "none", !.last = "threw"]
                  ELSE [session EXCEPT !.pc = "timer", !.last = "threw",
                                       !.waitMs = RetryTokenMs]
    /\ HookUnchanged

\* tokenRefreshRef's timer fires: fetchToken is called again.
TokenTimerFires ==
    /\ session.pc = "timer"
    /\ session.fetches < MaxFetches
    /\ session' = [session EXCEPT !.pc = "fetching", !.fetches = @ + 1]
    /\ HookUnchanged

\* CaptureSession with its token effect, a producer that only enqueues, and
\* the engine.
NextSession ==
    \/ \E k \in Keys \ {EmptyKey}, lifetime \in TokenLifetimes :
          TokenReceived(k, lifetime)
    \/ TokenMissing
    \/ TokenRefused
    \/ TokenThrew
    \/ TokenTimerFires
    \/ Unmount
    \/ AddToQueue
    \/ EngineStep

SpecSession == Init /\ [][NextSession]_vars

\* A producer that only enqueues, and the engine with up to MaxPauseHits
\* rate_limit answers in a row.
NextPauses ==
    \/ AddToQueue
    \/ \E c \in Chains : NextTimerFires(c)
    \/ \E c \in Chains : RateLimitTimerFires(c)
    \/ \E c \in Chains : BackoffElapses(c)
    \/ \E c \in Chains : UploadSucceeds(c)
    \/ \E c \in Chains : UploadFails(c)
    \/ \E c \in Chains : UploadRateLimitedUpTo(c, MaxPauseHits)

SpecPauses == Init /\ [][NextPauses]_vars

\* processNext waiting for the backoff of an item whose retryCount is any
\* attempt number from 0 to MaxAttempt.
InitBackoff ==
    /\ \E attempt \in 0..MaxAttempt :
         LET item == [NewItem(1) EXCEPT !.retryCount = attempt] IN
           /\ queue = <<[item EXCEPT !.status = "uploading"]>>
           /\ chains = [c \in Chains |->
                           IF c = 1
                           THEN [pc |-> "backoff", nextItem |-> item,
                                 cleared |-> FALSE, waitMs |-> 0]
                           ELSE IdleChain]
           /\ received = <<attempt>>
    /\ queueRef = queue
    /\ isUploading = TRUE
    /\ isRateLimited = FALSE
    /\ mountedRef = TRUE
    /\ processingRef = TRUE
    /\ nextTimerRef = 0
    /\ rateLimitTimerRef = 0
    /\ consecutiveRateLimitsRef = 0
    /\ store = {}
    /\ nextId = 2
    /\ clears = 0
    /\ errorsSeen = 0
    /\ loads = 0
    /\ apiKey = EmptyKey
    /\ closureKey = [c \in Chains |-> IF chains[c].pc = "none" THEN NoKey ELSE apiKey]
    /\ server = IdleServer
    /\ session = MountedSession

SpecBackoff == InitBackoff /\ [][\E c \in Chains : BackoffElapses(c)]_vars

\* CaptureItems as the store sees them, payload included.
StoredItems ==
    [id : 0..MaxItems, imageBase64 : {"a", "b"},
     status : {"pending", "error"}, retryCount : {0, MAX_RETRIES}]

\* Every content the store starts with: at most one record per key, all
\* with the first payload, so that a record with the other one is known to
\* have been saved since.
AnyStores ==
    {st \in SUBSET {r \in StoredItems : r.imageBase64 = "a"} :
        \A r, o \in st : r.id = o.id => r = o}

\* The store's functions called on any store content; the hook is idle.
InitStore ==
    /\ store \in AnyStores
    /\ queue = <<>>
    /\ queueRef = <<>>
    /\ isUploading = FALSE
    /\ isRateLimited = FALSE
    /\ mountedRef = TRUE
    /\ processingRef = FALSE
    /\ nextTimerRef = 0
    /\ rateLimitTimerRef = 0
    /\ consecutiveRateLimitsRef = 0
    /\ chains = [c \in Chains |-> IdleChain]
    /\ nextId = MaxItems + 1
    /\ clears = 0
    /\ received = <<>>
    /\ errorsSeen = 0
    /\ loads = 0
    /\ apiKey = EmptyKey
    /\ closureKey = [c \in Chains |-> NoKey]
    /\ server = IdleServer
    /\ session = MountedSession

\* saveToOfflineQueue(capture) (lib/indexed-db.ts:16-19)
StoreSave(capture) ==
    /\ store' = saveToOfflineQueue(store, capture)
    /\ UNCHANGED <<queue, isUploading, isRateLimited, mountedRef, processingRef,
                   nextTimerRef, rateLimitTimerRef, queueRef, consecutiveRateLimitsRef,
                   chains, nextId, clears, loads, received, errorsSeen, apiKey, closureKey,
                   server, session>>

\* removeFromOfflineQueue(captureId) (lib/indexed-db.ts:24-27)
StoreRemove(captureId) ==
    /\ store' = removeFromOfflineQueue(store, captureId)
    /\ UNCHANGED <<queue, isUploading, isRateLimited, mountedRef, processingRef,
                   nextTimerRef, rateLimitTimerRef, queueRef, consecutiveRateLimitsRef,
                   chains, nextId, clears, loads, received, errorsSeen, apiKey, closureKey,
                   server, session>>

NextStore ==
    \/ \E capture \in StoredItems : StoreSave(capture)
    \/ \E captureId \in 0..MaxItems : StoreRemove(captureId)

SpecStore == InitStore /\ [][NextStore]_vars

\* Every CaptureItem the type allows for an id, up to the retry counts that
\* matter to retryFailed, with the message the error branch leaves for them.
AnyItems(id) ==
    {[id |-> id, status |-> st, retryCount |-> rc,
      errorMessage |-> IF rc >= MAX_RETRIES THEN MaxRetriesMessage
                       ELSE IF rc > 0 THEN RetryMessage(rc) ELSE NoMessage] :
        st \in {"pending", "uploading", "success", "error"},
        rc \in {0, MAX_RETRIES - 1, MAX_RETRIES}}

\* Every queue of at most MaxQueueLen such items.
AnyQueues ==
    UNION {{q \in [1..n -> UNION {AnyItems(id) : id \in 1..n}] :
                \A i \in 1..n : q[i].id = i} : n \in 0..MaxQueueLen}

\* retryFailed called on a mounted hook whose queue is any CaptureItem[],
\* with the engine busy or not and paused or not.
InitAnyQueue ==
    /\ queue \in AnyQueues
    /\ queueRef = queue
    /\ isUploading = FALSE
    /\ isRateLimited \in BOOLEAN
    /\ mountedRef = TRUE
    /\ processingRef \in BOOLEAN
    /\ nextTimerRef = 0
    /\ rateLimitTimerRef = 0
    /\ consecutiveRateLimitsRef = 0
    /\ store = {}
    /\ chains = [c \in Chains |-> IdleChain]
    /\ nextId = Len(queue) + 1
    /\ clears = 0
    /\ received = [i \in DOMAIN queue |-> queue[i].retryCount]
    /\ errorsSeen = 0
    /\ loads = 0
    /\ apiKey = EmptyKey
    /\ closureKey = [c \in Chains |-> IF chains[c].pc = "none" THEN NoKey ELSE apiKey]
    /\ server = IdleServer
    /\ session = MountedSession

SpecAnyQueue == InitAnyQueue /\ [][RetryFailed]_vars

\* Timers fire, backoff waits end and every uploadItem call returns.
Fairness ==
    /\ WF_vars(\E c \in Chains : NextTimerFires(c))
    /\ WF_vars(\E c \in Chains : RateLimitTimerFires(c))
    /\ WF_vars(\E c \in Chains : BackoffElapses(c))
    /\ WF_vars(\E c \in Chains : UploadSucceeds(c) \/ UploadRateLimited(c) \/ UploadFails(c))

\* A mounted hook whose clearQueue is never called, with timers that fire
\* and an adapter that answers.
SpecNoClearFair == Init /\ [][NextNoClear]_vars /\ Fairness

TypeOK ==
    /\ \A i \in DOMAIN queue :
         /\ queue[i].status \in {"pending", "uploading", "success", "error"}
         /\ queue[i].retryCount \in 0..MAX_RETRIES
    /\ queueRef = queue
    /\ nextTimerRef \in 0..MaxChains
    /\ rateLimitTimerRef \in 0..MaxChains
    /\ \A c \in Chains :
         chains[c].pc \in {"none", "backoff", "upload", "nextTimer", "rateLimitTimer"}

----------------------------------------------------------------------------
(* Vocabulary of the properties.                                           *)

UploadingItems == {i \in DOMAIN queue : queue[i].status = "uploading"}

\* The chains whose uploadItem call is outstanding.
Outstanding == {c \in Chains : chains[c].pc = "upload"}

\* Chain c picks an item in this step.
Selects(c) ==
    /\ chains[c].pc \notin {"backoff", "upload"}
    /\ chains'[c].pc \in {"backoff", "upload"}

\* Chain c calls uploadItem in this step.
StartsAttempt(c) == chains[c].pc # "upload" /\ chains'[c].pc = "upload"

\* uploadItem of chain c resolves in this step.
Resolves(c) == chains[c].pc = "upload" /\ chains'[c].pc # "upload"

\* The first position of id in q, 0 if it has none.
IndexOf(q, id) ==
    IF \E i \in DOMAIN q : q[i].id = id
    THEN CHOOSE i \in DOMAIN q : q[i].id = id /\ \A j \in DOMAIN q : j < i => q[j].id # id
    ELSE 0

StoreIds == {r.id : r \in store}

----------------------------------------------------------------------------
\* C1: in every reachable state at most one queue item is 'uploading' and at
\* most one uploadItem call is outstanding.
C1_SingleInFlight ==
    /\ Cardinality(UploadingItems) <= 1
    /\ Cardinality(Outstanding) <= 1

\* C2: every selection takes the first eligible item in insertion order, and
\* when an adapter attempt starts no earlier item of the queue is still
\* waiting (pending or uploading): an item that was rate-limited or failed
\* non-terminally is attempted again before any item enqueued after it.
C2_InsertionOrder ==
    [][\A c \in Chains :
          /\ Selects(c) =>
                LET i == IndexOf(queue', chains'[c].nextItem.id) IN
                  /\ i > 0
                  /\ Eligible(chains'[c].nextItem)
                  /\ queue'[i].status = "uploading"
                  /\ \A j \in 1..(i - 1) : ~Eligible(queue'[j])
          /\ StartsAttempt(c) =>
                LET i == IndexOf(queue', chains'[c].nextItem.id) IN
                  \A j \in 1..(i - 1) : queue'[j].status \in {"success", "error"}]_vars

\* C2's case: an item that failed non-terminally is being attempted again
\* while an item enqueued after it waits.
C2_Witness ==
    \E c \in Chains :
        /\ chains[c].pc = "upload"
        /\ chains[c].nextItem.retryCount > 0
        /\ Len(queue) = 2
        /\ queue[1].id = chains[c].nextItem.id
        /\ queue[2].status = "pending"

\* C3: if clearQueue ran while an uploadItem call was outstanding, the call's
\* later result mutates nothing: queue, isRateLimited, isUploading, the
\* consecutive rate-limit counter, the timers and the store stay as they were.
C3_ClearDiscardsResult ==
    [][\A c \in Chains :
          (chains[c].cleared /\ Resolves(c)) =>
              /\ UNCHANGED <<queue, isRateLimited, isUploading, consecutiveRateLimitsRef,
                             nextTimerRef, rateLimitTimerRef, store>>
              /\ \A d \in Chains :
                    chains'[d].pc \in {"nextTimer", "rateLimitTimer"} => chains'[d] = chains[d]]_vars

\* C4: after teardown no processNext run selects an item, marks it
\* 'uploading' or starts an uploadItem call.
C4_NoTickAfterTeardown ==
    [][~mountedRef =>
          /\ \A c \in Chains : ~Selects(c) /\ ~StartsAttempt(c)
          /\ queue' = queue]_vars

\* C4's case: the hook is torn down while a per-item backoff wait is pending.
C4_Witness == ~mountedRef /\ \E c \in Chains : chains[c].pc = "backoff"

\* C5: the result of an adapter call that resolves after teardown is
\* discarded: item status and retryCount, the consecutive rate-limit counter,
\* isRateLimited and the store do not change and no timer is scheduled.
C5_ResultDiscardedAfterTeardown ==
    [][\A c \in Chains :
          (~mountedRef /\ Resolves(c)) =>
              /\ UNCHANGED <<queue, consecutiveRateLimitsRef, isRateLimited, store,
                             nextTimerRef, rateLimitTimerRef>>
              /\ chains'[c].pc = "none"]_vars

\* C5's case: an adapter call is outstanding after teardown.
C5_Witness == ~mountedRef /\ Outstanding # {}

\* C6: a rate_limit outcome leaves every retryCount as it was and returns the
\* item to 'pending'; a retryCount grows only in an error outcome.
C6_RateLimitKeepsRetryCount ==
    [][/\ \A c \in Chains :
            UploadRateLimited(c) =>
                \A i \in DOMAIN queue :
                    /\ queue'[i].retryCount = queue[i].retryCount
                    /\ queue[i].id = chains[c].nextItem.id => queue'[i].status = "pending"
       /\ (\E i \in DOMAIN queue \cap DOMAIN queue' :
               queue'[i].retryCount > queue[i].retryCount)
            => \E c \in Chains : UploadFails(c)]_vars

\* C6's case: the same item was rate-limited twice in a row and still has
\* its whole retry budget.
C6_Witness ==
    /\ consecutiveRateLimitsRef >= 2
    /\ \E c \in Chains : chains[c].pc = "rateLimitTimer"
    /\ \E i \in DOMAIN queue : queue[i].status = "pending" /\ queue[i].retryCount = 0

\* C7: an item of the queue is 'error' with a persisted record if and only if
\* it has received exactly MAX_RETRIES error outcomes (counted since it was
\* created or last reset by retryFailed; rate_limit outcomes do not count).
C7_FailedIffMaxRetries ==
    \A i \in DOMAIN queue :
        (queue[i].status = "error" /\ queue[i].id \in StoreIds)
            <=> received[i] = MAX_RETRIES

C9_StoreWrites ==
    /\ [](\A i \in DOMAIN queue : queue[i].status = "success" => queue[i].id \notin StoreIds)
    /\ [][/\ store' # store =>
                \E c \in Chains :
                    \/ UploadSucceeds(c)
                    \/ UploadFails(c) /\ chains[c].nextItem.retryCount + 1 >= MAX_RETRIES
          /\ \A id \in StoreIds' \ StoreIds :
                \A i \in DOMAIN queue' : queue'[i].id = id => queue'[i].status = "error"
          /\ \A id \in StoreIds \ StoreIds' :
                \A i \in DOMAIN queue' : queue'[i].id = id => queue'[i].status = "success"]_vars

\* C9's case: an item failed terminally, was reset by retryFailed and then
\* succeeded, and its record is gone.
C9_Witness ==
    \E i \in DOMAIN queue :
        /\ queue[i].status = "success"
        /\ queue[i].errorMessage = MaxRetriesMessage
        /\ queue[i].id \notin StoreIds

\* C10: while a rate-limit timer is pending no item is dequeued and no adapter
\* attempt starts.
C10_PauseHolds ==
    [][(\E d \in Chains : chains[d].pc = "rateLimitTimer" /\ chains'[d].pc = "rateLimitTimer")
          => \A c \in Chains : ~Selects(c) /\ ~StartsAttempt(c)]_vars

\* The engine is idle: the hook is mounted and no processNext run, adapter
\* call or timer is pending.
Idle == mountedRef /\ \A c \in Chains : chains[c].pc = "none"

\* C11: an addToQueue call in an idle state appends an item with status
\* 'pending' (taken at once, so 'uploading' after the commit) and retryCount 0,
\* and the engine starts the adapter attempt for it.
C11_AddWakesIdle ==
    [][(Idle /\ AddToQueue) =>
          /\ Len(queue') = Len(queue) + 1
          /\ queue'[Len(queue')].id = nextId
          /\ queue'[Len(queue')].retryCount = 0
          /\ \E c \in Chains :
                chains'[c].pc = "upload" /\ chains'[c].nextItem = NewItem(nextId)]_vars

\* An item that needs no further work: 'success', or 'error' at the ceiling.
Settled(item) ==
    \/ item.status = "success"
    \/ item.status = "error" /\ item.retryCount = MAX_RETRIES

\* C12: with no clearQueue and no teardown, timers that fire and an adapter
\* that answers (rate_limit only finitely often), every item that is
\* 'pending' or 'uploading' eventually is 'success' or terminal 'error'.
C12_EveryItemSettles ==
    \A i \in 1..MaxQueueLen :
        (i \in DOMAIN queue /\ queue[i].status \in {"pending", "uploading"})
            ~> (i \in DOMAIN queue /\ Settled(queue[i]))

\* C12's case: one item ended in terminal 'error' after its retries, another
\* in 'success', and the engine is idle again.
C12_Witness ==
    /\ Len(queue) = 2
    /\ \E i, j \in DOMAIN queue :
          /\ queue[i].status = "error" /\ queue[i].errorMessage = MaxRetriesMessage
          /\ queue[j].status = "success"
    /\ isRateLimited = FALSE
    /\ \A c \in Chains : chains[c].pc = "none"

\* C13: no retryCount exceeds MAX_RETRIES, and in every step the retryCount
\* of an item that stays in the queue is unchanged or one higher, except that
\* retryFailed may set it to 0.
C13_RetryCountMonotone ==
    /\ [](\A i \in DOMAIN queue : queue[i].retryCount <= MAX_RETRIES)
    /\ [][\A i \in DOMAIN queue \cap DOMAIN queue' :
            queue'[i].id = queue[i].id =>
                \/ queue'[i].retryCount = queue[i].retryCount
                \/ queue'[i].retryCount = queue[i].retryCount + 1
                \/ RetryFailed /\ queue'[i].retryCount = 0]_vars

\* What retryFailed makes of one item.
Reset(item) ==
    IF item.status = "error" /\ item.retryCount >= MAX_RETRIES
    THEN [item EXCEPT !.status = "pending", !.retryCount = 0]
    ELSE item

\* C14: a retryFailed call keeps the queue's length and order, turns every
\* 'error' item at the ceiling into 'pending' with retryCount 0 and leaves
\* every other item as it was; the only further change of the task is the
\* engine it wakes marking the item it takes 'uploading'.
C14_RetryFailedFrame ==
    [][RetryFailed =>
          /\ Len(queue') = Len(queue)
          /\ \A i \in DOMAIN queue :
                \/ queue'[i] = Reset(queue[i])
                \/ /\ queue'[i] = [Reset(queue[i]) EXCEPT !.status = "uploading"]
                   /\ Reset(queue[i]).status = "pending"
                   /\ \E c \in Chains : Selects(c) /\ chains'[c].nextItem.id = queue[i].id]_vars

\* C14's case: retryFailed reset the first item (its message is still the
\* terminal one) and left an 'error' item below the ceiling alone.
C14_Witness ==
    /\ Len(queue) = 2
    /\ queue[1].retryCount = 0 /\ queue[1].errorMessage = MaxRetriesMessage
    /\ queue[2].status = "error" /\ queue[2].retryCount = MAX_RETRIES - 1

\* C15: in the state a retryFailed call leaves, a second call changes
\* nothing: its map returns the queue it is given and its commit starts no
\* processNext run.
C15_RetryFailedIdempotent ==
    [][RetryFailed =>
          /\ ResetFailed(queue') = queue'
          /\ {i \in DOMAIN queue' : ResetFailed(queue')[i].status = "pending"}
                = {i \in DOMAIN queue' : queue'[i].status = "pending"}
          /\ ~Starts(Cur', isRateLimited')]_vars

\* C15's case: a call reset two items (their messages are still the terminal
\* ones) while the engine was busy, so both are 'pending'.
C15_Witness ==
    /\ Len(queue) = 2
    /\ \A i \in DOMAIN queue :
          /\ queue[i].status = "pending" /\ queue[i].retryCount = 0
          /\ queue[i].errorMessage = MaxRetriesMessage

\* C16: clearQueue leaves the queue empty and no timer pending, and no
\* adapter attempt ever starts for an item that is not in the queue.
C16_ClearCancelsWork ==
    [][/\ ClearQueue =>
            /\ queue' = <<>>
            /\ \A c \in Chains : chains'[c].pc \notin {"nextTimer", "rateLimitTimer"}
       /\ \A c \in Chains :
            StartsAttempt(c) =>
                \E i \in DOMAIN queue' : queue'[i].id = chains'[c].nextItem.id]_vars

\* The items that are 'uploading' are in the next state what they are now.
UploadingKept ==
    \A i \in DOMAIN queue :
        queue[i].status = "uploading" => (i \in DOMAIN queue' /\ queue'[i] = queue[i])

\* C17 as stated: no addToQueue, retryFailed or clearQueue call changes or
\* removes an item that is 'uploading'.
C17_EntryPointsKeepUploading ==
    [][(AddToQueue \/ RetryFailed \/ ClearQueue) => UploadingKept]_vars

\* C17, amended: no addToQueue or retryFailed call changes or removes an item
\* that is 'uploading'; clearQueue removes every item, that one included.
C17_AddAndRetryKeepUploading ==
    [][/\ (AddToQueue \/ RetryFailed) => UploadingKept
       /\ ClearQueue => queue' = <<>>]_vars

\* C17's case: an item was added while another one is in flight.
C17_Witness ==
    /\ Len(queue) = 2
    /\ queue[1].status = "uploading" /\ queue[2].status = "pending"
    /\ \E c \in Chains : chains[c].pc = "upload" /\ chains[c].nextItem.id = queue[1].id

\* C18: the consecutive rate-limit counter goes up by exactly 1 in a
\* rate_limit outcome, to 0 in a success outcome (which leaves the item
\* 'success' with the retryCount it had) and is unchanged in every other
\* step, error outcomes included.
C18_ConsecutiveCounter ==
    [][/\ \A c \in Chains :
            /\ UploadRateLimited(c) =>
                    consecutiveRateLimitsRef' = consecutiveRateLimitsRef + 1
            /\ UploadSucceeds(c) =>
                    /\ consecutiveRateLimitsRef' = 0
                    /\ \A i \in DOMAIN queue' :
                          queue'[i].id = chains[c].nextItem.id =>
                              /\ queue'[i].status = "success"
                              /\ queue'[i].retryCount = queue[i].retryCount
            /\ UploadFails(c) => consecutiveRateLimitsRef' = consecutiveRateLimitsRef
       /\ consecutiveRateLimitsRef' # consecutiveRateLimitsRef =>
            \E c \in Chains : UploadRateLimited(c) \/ UploadSucceeds(c)]_vars

\* C18's case: two rate_limit outcomes in a row for the only item, no
\* success and no error so far: the counter is 2, the item 'pending' with
\* retryCount 0, and the second pause is running.
C18_Witness ==
    /\ consecutiveRateLimitsRef = 2
    /\ Len(queue) = 1
    /\ queue[1].status = "pending" /\ queue[1].retryCount = 0
    /\ \E c \in Chains : chains[c].pc = "rateLimitTimer"
    /\ errorsSeen = 0
    /\ clears = 0

\* The pause tiers as the claim lists them.
Tier(k) ==
    CASE k = 1 -> 30000
      [] k = 2 -> 60000
      [] k = 3 -> 120000
      [] OTHER -> 180000

\* C19: the rate-limit timer scheduled on the k-th consecutive rate_limit
\* outcome waits Tier(k) ms plus a jitter in [0, 5000), so never less than
\* 30000 ms and never 185000 ms or more.
C19_PauseTiers ==
    [][\A c \in Chains :
          (chains[c].pc = "upload" /\ chains'[c].pc = "rateLimitTimer") =>
              LET k == consecutiveRateLimitsRef'
                  w == chains'[c].waitMs
              IN  /\ k >= 1
                  /\ w >= Tier(k) /\ w < Tier(k) + 5000
                  /\ w >= 30000 /\ w < 185000]_vars

\* C19's case: the fifth rate_limit outcome in a row scheduled the capped
\* pause with the largest jitter.
C19_Witness ==
    /\ consecutiveRateLimitsRef = 5
    /\ \E c \in Chains : chains[c].pc = "rateLimitTimer" /\ chains[c].waitMs = 184999

\* C20: the delay of a backoff wait for attempt a is an integer that is not
\* negative, not above 33000 and within 10% of min(1000 * 2^a, 30000) on
\* either side; the un-jittered delay does not decrease with the attempt.
C20_BackoffDelayBounds ==
    /\ [](\A a \in 0..(MaxAttempt - 1) : BackoffBase(a) <= BackoffBase(a + 1))
    /\ [][\A c \in Chains :
            (chains[c].pc = "backoff" /\ chains'[c].pc = "upload") =>
                LET a == chains[c].nextItem.retryCount
                    w == chains'[c].waitMs
                    plain == IF 1000 * 2 ^ a <= 30000 THEN 1000 * 2 ^ a ELSE 30000
                IN  /\ w \in Nat
                    /\ w <= 33000
                    /\ 10 * w >= 9 * plain
                    /\ 10 * w <= 11 * plain]_vars

\* C20's case: the wait for an attempt beyond the cap took the longest
\* possible delay.
C20_Witness ==
    \E c \in Chains :
        /\ chains[c].pc = "upload"
        /\ chains[c].nextItem.retryCount > 5
        /\ chains[c].waitMs = 33000

\* The result processNext acted on when the call of chain c resolved.
ObservedOutcome(c) ==
    IF chains'[c].pc = "rateLimitTimer" THEN "rate_limit"
    ELSE IF \E i \in DOMAIN queue' :
                queue'[i].id = chains[c].nextItem.id /\ queue'[i].status = "success"
         THEN "success"
         ELSE "error"

\* The mapping as the claim states it.
ExpectedOutcome(r) ==
    IF r.status = 429 THEN "rate_limit"
    ELSE IF r.status = 0 \/ r.status < 200 \/ r.status > 299 THEN "error"
    ELSE IF r.body = "true" THEN "success"
    ELSE "error"

\* C21: uploadItem resolves to one of 'success', 'error', 'rate_limit' for
\* every exchange, and processNext receives 'rate_limit' for a 429, 'error'
\* for any other non-2xx answer, a transport failure or a body that cannot
\* be read, and for a 2xx answer 'success' exactly when success is true.
C21_AdapterOutcomes ==
    /\ [](\A r \in Responses : uploadItem(r) \in {"success", "error", "rate_limit"})
    /\ [][\A c \in Chains, r \in Responses :
            Responds(c, r) => ObservedOutcome(c) = ExpectedOutcome(r)]_vars

\* C21's case: the three results have all been acted on: one item is
\* 'success', the other has failed once and is paused by a 429.
C21_Witness ==
    /\ Len(queue) = 2
    /\ queue[1].status = "success"
    /\ queue[2].status = "pending" /\ queue[2].retryCount > 0
    /\ \E c \in Chains : chains[c].pc = "rateLimitTimer"

\* C22: when the server rejects the credential (401, which is also its
\* answer to an empty apiKey), the item fails at once: it is 'error' after
\* that outcome and is not put back to 'pending' for another attempt.
C22_CredentialFailsFast ==
    [][\A c \in Chains, r \in Responses :
          (Responds(c, r) /\ r.status = 401) =>
              \A i \in DOMAIN queue' :
                  queue'[i].id = chains[c].nextItem.id => queue'[i].status = "error"]_vars

\* C23: every uploadItem call sends the apiKey of the latest render.
C23_CurrentCredential ==
    [][\A c \in Chains : StartsAttempt(c) => closureKey'[c] = apiKey']_vars

\* C24: an item that is not 'error' carries no errorMessage.
C24_MessageOnlyWhenFailed ==
    \A i \in DOMAIN queue :
        queue[i].status # "error" => queue[i].errorMessage = NoMessage

\* C25: no two entries of the queue have the same id.
C25_UniqueIds ==
    \A i, j \in DOMAIN queue : i # j => queue[i].id # queue[j].id

\* C26: in every step but a clearQueue call each item keeps its position, so
\* the order of the items never changes and new items come after all the
\* items there were.
C26_OrderKept ==
    [][~ClearQueue =>
          /\ Len(queue') >= Len(queue)
          /\ \A i \in DOMAIN queue : queue'[i].id = queue[i].id]_vars

\* C26's case: the first item went through its status changes and the
\* store's record was appended behind it.
C26_Witness ==
    /\ Len(queue) = 2
    /\ queue[1].id # PriorId /\ queue[1].status = "success"
    /\ queue[2].id = PriorId

\* C27: after saveToOfflineQueue(item), getOfflineQueue() returns item as it
\* was saved, once, whatever the store held for its id before, and the
\* records of other ids as they were; removeFromOfflineQueue of an id that
\* has no record changes nothing.
C27_StoreRoundTrip ==
    [][/\ \A item \in StoredItems :
            StoreSave(item) =>
                LET got == getOfflineQueue(store') IN
                  /\ Cardinality({i \in DOMAIN got : got[i].id = item.id}) = 1
                  /\ \E i \in DOMAIN got : got[i] = item
                  /\ \A r \in store : r.id # item.id => \E i \in DOMAIN got : got[i] = r
                  /\ Len(got) = Cardinality(StoreIds \cup {item.id})
       /\ \A id \in 0..MaxItems :
            (StoreRemove(id) /\ id \notin StoreIds) => store' = store]_vars

\* C27's case: a record was saved over another record of its id, beside a
\* record of another id.
C27_Witness ==
    /\ Cardinality(store) = 2
    /\ \E r \in store : r.id = 1 /\ r.imageBase64 = "b" /\ r.retryCount = MAX_RETRIES
    /\ nextId = MaxItems + 1
\* C28: the server-side limiter allows at most 20 requests per client
\* within one 10-second window: a call reports limited = TRUE exactly when
\* the client has made more than 20 calls in its window, a call after
\* resetAt opens a fresh window with count 1, and a call leaves every
\* other client's unexpired entry as it was.
C28_ServerLimiter ==
    [][\A clientId \in ClientIds :
          (\E cleans \in BOOLEAN : ServerIsRateLimited(clientId, cleans)) =>
              /\ server'.reply.limited = (server'.seen[clientId].n > 20)
              /\ server'.seen[clientId].n = 1 =>
                     /\ server'.rateLimitMap[clientId].count = 1
                     /\ server'.reply.resetAt = server.now + 10000
              /\ \A other \in ClientIds \ {clientId} :
                     \/ server'.rateLimitMap[other] = server.rateLimitMap[other]
                     \/ server.now > server.rateLimitMap[other].resetAt]_vars

\* C29: a processNext run selects, marks the item 'uploading', waits the
\* backoff if and only if the selected item's retryCount > 0, and only then
\* calls the adapter: an item that has had no error outcome since it was
\* created or reset by retryFailed is attempted in the task that selects it,
\* and an attempt that follows an error outcome starts only when a backoff
\* wait of getBackoffDelay(retryCount) has ended.
C29_BackoffBeforeRetry ==
    [][\A c \in Chains :
          /\ Selects(c) =>
                LET item == chains'[c].nextItem
                    marked == {i \in DOMAIN queue' :
                                  queue'[i] = [item EXCEPT !.status = "uploading"]}
                IN  /\ item.status = "pending"
                    /\ marked # {}
                    /\ (chains'[c].pc = "backoff") <=> (item.retryCount > 0)
                    /\ chains'[c].waitMs = 0
                    /\ \A i \in marked :
                          (received'[i] = 0) <=> (chains'[c].pc = "upload")
          /\ StartsAttempt(c) =>
                \/ Selects(c) /\ chains'[c].nextItem.retryCount = 0
                \/ /\ chains[c].pc = "backoff"
                   /\ chains[c].nextItem.retryCount > 0
                   /\ \E n \in Draws :
                         chains'[c].waitMs = getBackoffDelay(chains[c].nextItem.retryCount, n)
                   /\ chains'[c].waitMs > 0]_vars

\* C29's case: an item that failed terminally and was reset by retryFailed
\* is being attempted again, without a backoff wait.
C29_Witness ==
    \E c \in Chains, i \in DOMAIN queue :
        /\ chains[c].pc = "upload"
        /\ chains[c].waitMs = 0
        /\ chains[c].nextItem.id = queue[i].id
        /\ queue[i].status = "uploading"
        /\ queue[i].retryCount = 0
        /\ queue[i].id \in StoreIds
        /\ errorsSeen >= MAX_RETRIES

\* The chains whose inter-item timer is pending.
NextTimers == {c \in Chains : chains[c].pc = "nextTimer"}

\* C30: a success or error outcome schedules the inter-item timer, which is
\* then the only one pending and the one nextTimerRef names; while an
\* inter-item timer is pending no item is selected and no adapter attempt
\* starts, whatever addToQueue and retryFailed calls are made, until the
\* timer's own callback runs.
C30_InterItemDelay ==
    [][/\ \A c \in Chains :
             (chains[c].pc = "upload" /\ chains'[c].pc = "nextTimer") =>
                 /\ nextTimerRef' = c
                 /\ {d \in Chains : chains'[d].pc = "nextTimer"} = {c}
       /\ Cardinality(NextTimers) <= 1
       /\ NextTimers # {} =>
             \A d \in Chains :
                 (Selects(d) \/ StartsAttempt(d)) => d \in NextTimers]_vars

\* C31: the record a terminal failure writes to the store is the queue's
\* item: an entry of the queue has the record's id, status 'error',
\* retryCount = MAX_RETRIES and errorMessage, which is 'Max retries
\* exceeded'.
C31_RecordMatchesItem ==
    [][\A r \in store' \ store :
          /\ r.status = "error"
          /\ r.retryCount = MAX_RETRIES
          /\ r.errorMessage = MaxRetriesMessage
          /\ \E i \in DOMAIN queue' : queue'[i] = r]_vars

\* The entries of the queue that failed terminally or were re-hydrated as
\* such.
Failed == {i \in DOMAIN queue :
              queue[i].status = "error" /\ queue[i].retryCount >= MAX_RETRIES}

\* C32: an entry that failed terminally or was re-hydrated from the store
\* stays 'error' as long as it is in the queue, and no processNext run
\* selects its id or calls the adapter for it, in every step that is not a
\* retryFailed call; a retryFailed call gives it retryCount 0 and counts its
\* error outcomes from 0 again.
C32_FailedWaitForRetry ==
    [][\A i \in Failed :
          IF RetryFailed
          THEN /\ queue'[i].retryCount = 0
               /\ queue'[i].status \in {"pending", "uploading"}
               /\ received'[i] = 0
          ELSE /\ i \in DOMAIN queue' => queue'[i] = queue[i]
               /\ \A c \in Chains :
                     (Selects(c) \/ StartsAttempt(c)) =>
                         chains'[c].nextItem.id # queue[i].id]_vars

\* C33: in every reachable state of a mounted hook, isRateLimited = TRUE
\* implies that the rate-limit timer rateLimitTimerRef names is pending (its
\* callback clears the flag and calls processNext).
C33_PauseEnds ==
    (mountedRef /\ isRateLimited) =>
        \E c \in Chains : chains[c].pc = "rateLimitTimer" /\ rateLimitTimerRef = c

\* C34: while the component is mounted, every outcome of fetchToken (a
\* token, a response that is not OK, a throw) leaves a refresh timer pending
\* whose callback calls fetchToken again.
C34_RefreshNeverStops ==
    [][(/\ session.pc = "fetching"
        /\ session'.pc # "fetching"
        /\ session'.last \in {"token", "not_ok", "threw"}
        /\ ~session'.cancelled)
          => session'.pc = "timer"]_vars

\* C35: in every reachable state an item is 'error' only with retryCount >=
\* MAX_RETRIES, and a 'pending' or 'uploading' item has retryCount <
\* MAX_RETRIES.
C35_StatusMatchesCount ==
    \A i \in DOMAIN queue :
        /\ queue[i].status = "error" => queue[i].retryCount >= MAX_RETRIES
        /\ queue[i].status \in {"pending", "uploading"} =>
               queue[i].retryCount < MAX_RETRIES

\* C36: in every reachable state the three counts of uploadProgress add up
\* to the queue length, and once every item of a batch has succeeded (three
\* of three) uploadProgress is all success, none failed, none pending.
C36_ProgressPartitions ==
    /\ uploadProgress.success + uploadProgress.failed + uploadProgress.pending
           = Len(queue)
    /\ (\A i \in DOMAIN queue : queue[i].status = "success") =>
           uploadProgress = [success |-> Len(queue), failed |-> 0, pending |-> 0]

\* C36's case: three items were enqueued and all three have succeeded.
C36_Witness ==
    /\ Len(queue) = 3
    /\ \A i \in DOMAIN queue : queue[i].status = "success"
    /\ uploadProgress = [success |-> 3, failed |-> 0, pending |-> 0]

\* C37: clearQueue and retryFailed leave the store as it is; a record stays
\* in the store in every step but the success outcome of its id, so the
\* record of a terminally failed item outlives clearQueue and retryFailed;
\* and loadOfflineQueue puts an entry into the queue for every record.
C37_StoreOutlivesQueue ==
    [][/\ (ClearQueue \/ RetryFailed) => store' = store
       /\ \A r \in store :
             \/ r.id \in StoreIds'
             \/ \E c \in Chains :
                   /\ Resolves(c)
                   /\ chains[c].nextItem.id = r.id
                   /\ \A i \in DOMAIN queue' :
                         queue'[i].id = r.id => queue'[i].status = "success"
       /\ LoadOfflineQueue =>
             \A r \in store : \E i \in DOMAIN queue' \ DOMAIN queue : queue'[i] = r]_vars

\* C37's case: clearQueue has dropped an item of this session that failed
\* terminally, and loadOfflineQueue has brought its record back as the only
\* entry of the queue.
C37_Witness ==
    /\ clears > 0
    /\ loads > 0
    /\ Len(queue) = 1
    /\ queue[1] \in store
    /\ queue[1].id # PriorId

\* C38: in every reachable state of a mounted hook with no processNext run
\* active (no adapter call outstanding, no backoff wait, no inter-item or
\* rate-limit timer pending) isUploading is FALSE.
C38_UploadingFollowsEngine ==
    Idle => ~isUploading

====
